---------------------------- MODULE Spec2Model ----------------------------
(***************************************************************************)
(* Model of the page loader (src/src/errors/PageLoaderError.js, lines      *)
(* 115-354, the version with the progress option): one invocation of       *)
(* load(pageUrl, outputDir, options) as a state machine whose steps are    *)
(* the turns of the event loop (a settled HTTP request or file-system      *)
(* call together with the promise reactions it triggers).                  *)
(*                                                                         *)
(* Strings are TLA+ strings, handled character by character, so that the   *)
(* naming functions, the URL resolution and the path joins are computed    *)
(* and not assumed.                                                        *)
(***************************************************************************)
EXTENDS Integers, Sequences, FiniteSets, TLC

(***************************************************************************)
(* Bounds of the model.                                                    *)
(***************************************************************************)
\* The longest page, in elements, that Init draws.
MaxElems == 2

(***************************************************************************)
(* Characters and strings.                                                 *)
(***************************************************************************)
Ch(s, i) == SubSeq(s, i, i)

Chars(s) == { Ch(s, i) : i \in 1..Len(s) }

LowerStr == "abcdefghijklmnopqrstuvwxyz"
UpperStr == "ABCDEFGHIJKLMNOPQRSTUVWXYZ"
DigitStr == "0123456789"

\* The character class [a-zA-Z0-9] of sanitize's regular expression.
AlnumChars == Chars(LowerStr) \cup Chars(UpperStr) \cup Chars(DigitStr)

\* The characters a URL scheme may hold (WHATWG URL, scheme state).
SchemeChars == AlnumChars \cup {"+", "-", "."}

\* The least and the greatest member of a set of indices, 0 for none.
MinOf(hits) ==
    IF hits = {} THEN 0 ELSE CHOOSE i \in hits : \A j \in hits : i <= j

MaxOf(hits) ==
    IF hits = {} THEN 0 ELSE CHOOSE i \in hits : \A j \in hits : i >= j

\* Index of the first occurrence of character c in s, 0 when there is none.
IndexOf(s, c) == MinOf({ i \in 1..Len(s) : Ch(s, i) = c })

\* Index of the last occurrence of character c in s, 0 when there is none.
LastIndexOf(s, c) == MaxOf({ i \in 1..Len(s) : Ch(s, i) = c })

StartsWith(s, p) == Len(s) >= Len(p) /\ SubSeq(s, 1, Len(p)) = p

EndsWith(s, p) == Len(s) >= Len(p) /\ SubSeq(s, Len(s) - Len(p) + 1, Len(s)) = p

\* s.slice(n) of JavaScript for 0 <= n: s without its first n characters.
DropFirst(s, n) == SubSeq(s, n + 1, Len(s))

\* String.prototype.toLowerCase on the ASCII letters.
LowerAt(c, i) == IF i = 0 THEN c ELSE Ch(LowerStr, i)

ToLowerCh(c) == LowerAt(c, IndexOf(UpperStr, c))

RECURSIVE toLowerCase(_)
toLowerCase(s) ==
    IF s = "" THEN "" ELSE ToLowerCh(Ch(s, 1)) \o toLowerCase(DropFirst(s, 1))

\* s.split(c): the pieces of s between the occurrences of character c.
RECURSIVE Split(_, _)
RECURSIVE SplitAt(_, _, _)
SplitAt(s, c, i) ==
    IF i = 0 THEN <<s>>
    ELSE <<SubSeq(s, 1, i - 1)>> \o Split(DropFirst(s, i), c)

Split(s, c) == SplitAt(s, c, IndexOf(s, c))

\* The part of s before its first character c (s when there is none), and
\* the part from that character on ("" when it is missing or ends s).
BeforeAt(s, i) == IF i = 0 THEN s ELSE SubSeq(s, 1, i - 1)
Before(s, c) == BeforeAt(s, IndexOf(s, c))

FromAt(s, i) == IF i = 0 \/ i = Len(s) THEN "" ELSE DropFirst(s, i - 1)
From(s, c) == FromAt(s, IndexOf(s, c))

\* segs.join(c)
RECURSIVE JoinWith(_, _)
JoinWith(segs, c) ==
    IF segs = <<>> THEN ""
    ELSE IF Len(segs) = 1 THEN segs[1]
    ELSE segs[1] \o c \o JoinWith(Tail(segs), c)

\* s without its leading characters c.
RECURSIVE StripLeading(_, _)
StripLeading(s, c) ==
    IF s # "" /\ Ch(s, 1) = c THEN StripLeading(DropFirst(s, 1), c) ELSE s

\* s without its trailing characters c.
RECURSIVE StripTrailing(_, _)
StripTrailing(s, c) ==
    IF s # "" /\ Ch(s, Len(s)) = c
    THEN StripTrailing(SubSeq(s, 1, Len(s) - 1), c) ELSE s

(***************************************************************************)
(* new URL(input, base) of Node (the WHATWG URL parser), for the inputs    *)
(* the model draws: an optional scheme, an authority that is a host name,  *)
(* a path with dot segments, a query and a fragment.  A URL is a record;   *)
(* ok = FALSE stands for the TypeError the constructor throws.             *)
(***************************************************************************)
InvalidUrl ==
    [ok |-> FALSE, protocol |-> "", host |-> "", pathname |-> "",
     search |-> "", hash |-> ""]

\* The schemes whose URLs have a host and a hierarchical path.
SpecialSchemes == {"http", "https", "ftp", "ws", "wss"}

\* The scheme of input (lower-cased, without the colon), "" when input
\* does not start with one.
SchemeAt(input, i) ==
    IF i > 1
       /\ Ch(input, 1) \in Chars(LowerStr) \cup Chars(UpperStr)
       /\ \A k \in 1..(i - 1) : Ch(input, k) \in SchemeChars
    THEN toLowerCase(SubSeq(input, 1, i - 1))
    ELSE ""

SchemeOf(input) == SchemeAt(input, IndexOf(input, ":"))

\* The path state of the parser: "." segments dropped, ".." segments
\* removing the segment before them; acc holds the segments kept so far.
RECURSIVE DotFold(_, _)
DotFold(segs, acc) ==
    IF segs = <<>> THEN acc
    ELSE IF Head(segs) = ".."
    THEN DotFold(Tail(segs),
                 (IF acc = <<>> THEN acc ELSE SubSeq(acc, 1, Len(acc) - 1))
                    \o (IF Len(segs) = 1 THEN <<"">> ELSE <<>>))
    ELSE IF Head(segs) = "."
    THEN DotFold(Tail(segs), acc \o (IF Len(segs) = 1 THEN <<"">> ELSE <<>>))
    ELSE DotFold(Tail(segs), Append(acc, Head(segs)))

\* The pathname of a hierarchical URL from the raw path p ("" or "/...").
UrlPathname(p) ==
    IF p = "" THEN "/"
    ELSE "/" \o JoinWith(DotFold(Split(DropFirst(p, 1), "/"), <<>>), "/")

\* A hierarchical URL of the given host; no host is a failure.
UrlWithHost(scheme, host, p, search, hash) ==
    IF host = "" THEN InvalidUrl
    ELSE [ok |-> TRUE, protocol |-> scheme \o ":", host |-> host,
          pathname |-> UrlPathname(p), search |-> search, hash |-> hash]

\* The authority and path that follow the slashes of "scheme://".
UrlFromAuthority(scheme, rest, search, hash) ==
    UrlWithHost(scheme, toLowerCase(Before(rest, "/")),
                DropFirst(rest, Len(Before(rest, "/"))), search, hash)

\* input without scheme, resolved against the hierarchical URL base.
UrlRelative(body, search, hash, hasQuery, base) ==
    IF StartsWith(body, "//")
    THEN UrlFromAuthority(SubSeq(base.protocol, 1, Len(base.protocol) - 1),
                          StripLeading(body, "/"), search, hash)
    ELSE IF StartsWith(body, "/")
    THEN [base EXCEPT !.pathname = UrlPathname(body),
                      !.search = search, !.hash = hash]
    ELSE IF body = ""
    THEN [base EXCEPT !.search = IF hasQuery THEN search ELSE base.search,
                      !.hash = hash]
    ELSE [base EXCEPT
            !.pathname = UrlPathname(
                SubSeq(base.pathname, 1, LastIndexOf(base.pathname, "/"))
                    \o body),
            !.search = search, !.hash = hash]

\* The scheme state and what follows it: body is the input without its
\* query and fragment, scheme its scheme.
UrlWithScheme(scheme, body, search, hash, hasQuery, hasBase, base) ==
    IF scheme = ""
    THEN IF hasBase /\ base.ok /\ base.host # ""
         THEN UrlRelative(body, search, hash, hasQuery, base)
         ELSE InvalidUrl
    ELSE IF scheme \in SpecialSchemes
    THEN IF hasBase /\ base.ok /\ base.protocol = scheme \o ":"
            /\ ~StartsWith(DropFirst(body, Len(scheme) + 1), "/")
         THEN UrlRelative(DropFirst(body, Len(scheme) + 1), search, hash,
                          hasQuery, base)
         ELSE UrlFromAuthority(
                scheme, StripLeading(DropFirst(body, Len(scheme) + 1), "/"),
                search, hash)
    ELSE [ok |-> TRUE, protocol |-> scheme \o ":", host |-> "",
          pathname |-> DropFirst(body, Len(scheme) + 1),
          search |-> search, hash |-> hash]

UrlOfParts(body, search, hash, hasQuery, hasBase, base) ==
    UrlWithScheme(SchemeOf(body), body, search, hash, hasQuery, hasBase, base)

UrlNoHash(beforeHash, hash, hasBase, base) ==
    UrlOfParts(Before(beforeHash, "?"), From(beforeHash, "?"), hash,
               IndexOf(beforeHash, "?") # 0, hasBase, base)

\* new URL(input, base); hasBase = FALSE is new URL(input).
ParseUrl(input, hasBase, base) ==
    UrlNoHash(Before(input, "#"), From(input, "#"), hasBase, base)

\* new URL(pageUrl)
Url1(input) == ParseUrl(input, FALSE, InvalidUrl)

\* new URL(ref, pageUrl)
Url2(input, baseInput) == ParseUrl(input, TRUE, Url1(baseInput))

\* URL.prototype.toString(): the serialized URL.
UrlToString(u) ==
    u.protocol \o (IF u.host = "" THEN "" ELSE "//" \o u.host)
        \o u.pathname \o u.search \o u.hash

(***************************************************************************)
(* The functions of Node's path module the loader calls (POSIX flavour).   *)
(***************************************************************************)
\* normalizeString: empty and "." segments dropped, ".." removing the
\* segment before it, or kept when there is none and the path is relative.
RECURSIVE NormFold(_, _, _)
NormFold(segs, acc, allowAboveRoot) ==
    IF segs = <<>> THEN acc
    ELSE IF Head(segs) = "" \/ Head(segs) = "."
    THEN NormFold(Tail(segs), acc, allowAboveRoot)
    ELSE IF Head(segs) = ".."
    THEN IF acc # <<>> /\ acc[Len(acc)] # ".."
         THEN NormFold(Tail(segs), SubSeq(acc, 1, Len(acc) - 1), allowAboveRoot)
         ELSE IF allowAboveRoot
         THEN NormFold(Tail(segs), Append(acc, ".."), allowAboveRoot)
         ELSE NormFold(Tail(segs), acc, allowAboveRoot)
    ELSE NormFold(Tail(segs), Append(acc, Head(segs)), allowAboveRoot)

\* path.normalize(p), given the normalized segments of p joined as body.
NormalizedAs(p, body) ==
    IF body = ""
    THEN IF StartsWith(p, "/") THEN "/" ELSE IF EndsWith(p, "/") THEN "./" ELSE "."
    ELSE (IF StartsWith(p, "/") THEN "/" ELSE "") \o body
            \o (IF EndsWith(p, "/") THEN "/" ELSE "")

\* path.normalize(p)
PathNormalize(p) ==
    IF p = "" THEN "."
    ELSE NormalizedAs(
            p, JoinWith(NormFold(Split(p, "/"), <<>>, ~StartsWith(p, "/")), "/"))

\* path.join(a, b) and path.posix.join(a, b)
PathJoin(a, b) ==
    IF a = "" /\ b = "" THEN "."
    ELSE IF a = "" THEN PathNormalize(b)
    ELSE IF b = "" THEN PathNormalize(a)
    ELSE PathNormalize(a \o "/" \o b)

\* process.cwd(): the directory a relative path is resolved against.
Cwd == "/home/u"

\* The path as it is given.
PathUnresolved(p) == p

\* path.resolve(p)
PathResolve(p) ==
    "/" \o JoinWith(
        NormFold(Split(IF StartsWith(p, "/") THEN p ELSE Cwd \o "/" \o p, "/"),
                 <<>>, FALSE),
        "/")

\* path.extname(p): from the last "." of the last component of p (trailing
\* slashes ignored) to the end of that component; "" when the component has
\* no "." or only a leading one, or is "..".
ExtFrom(base, d) ==
    IF d <= 1 \/ base = ".." THEN "" ELSE DropFirst(base, d - 1)

ExtOfBase(base) == ExtFrom(base, LastIndexOf(base, "."))

LastComponent(trimmed) == DropFirst(trimmed, LastIndexOf(trimmed, "/"))

PathExtname(p) == ExtOfBase(LastComponent(StripTrailing(p, "/")))

(***************************************************************************)
(* Errors.  Every error is a record of the fields the loader's error       *)
(* classes carry; a field that is undefined in JavaScript is "" or 0.      *)
(* The messages of the HttpError and the NetworkError are the ones the     *)
(* fetch wrapper gives them.                                               *)
(***************************************************************************)
NoCause == [code |-> "", status |-> 0]

\* The decimal digits of n, as string interpolation writes a number.
RECURSIVE DecimalOf(_)
DecimalOf(n) ==
    IF n < 10 THEN SubSeq(DigitStr, n + 1, n + 1)
    ELSE DecimalOf(n \div 10) \o SubSeq(DigitStr, (n % 10) + 1, (n % 10) + 1)

NoError ==
    [name |-> "", message |-> "", resourceUrl |-> "", filepath |-> "",
     status |-> 0, cause |-> NoCause]

HttpError(url, status, cause) ==
    [name |-> "HttpError",
     message |-> "HTTP " \o DecimalOf(status) \o " when fetching " \o url,
     resourceUrl |-> url, filepath |-> "", status |-> status, cause |-> cause]

NetworkError(url, cause) ==
    [name |-> "NetworkError",
     message |-> "Network error when fetching " \o url,
     resourceUrl |-> url, filepath |-> "", status |-> 0, cause |-> cause]

FileSystemError(message, filepath, cause) ==
    [name |-> "FileSystemError", message |-> message, resourceUrl |-> "",
     filepath |-> filepath, status |-> 0, cause |-> cause]

\* The TypeError (ERR_INVALID_URL) new URL throws for input.
InvalidUrlError(input) ==
    [name |-> "TypeError", message |-> "Invalid URL", resourceUrl |-> "",
     filepath |-> "", status |-> 0,
     cause |-> [code |-> "ERR_INVALID_URL", status |-> 0]]

(***************************************************************************)
(* Naming helpers.                                                         *)
(***************************************************************************)
\* value.replace(/[^a-zA-Z0-9]/g, '-')
RECURSIVE sanitize(_)
sanitize(value) ==
    IF value = "" THEN ""
    ELSE (IF Ch(value, 1) \in AlnumChars THEN Ch(value, 1) ELSE "-")
            \o sanitize(DropFirst(value, 1))

\* The name with the query string let in.
HtmlFilenameWithQuery(u) ==
    sanitize(u.host \o u.pathname \o u.search) \o ".html"

\* `${sanitize(`${host}${pathname}`)}.html`
HtmlFilenameOf(u) == sanitize(u.host \o u.pathname) \o ".html"

makeHtmlFilenameFromUrl(pageUrl) == HtmlFilenameOf(Url1(pageUrl))

\* The suffix added to the whole name.
AppendFilesSuffix(htmlName) == htmlName \o "_files"

\* htmlName.replace(/\.html$/, '_files')
ReplaceHtmlSuffix(htmlName) ==
    IF EndsWith(htmlName, ".html")
    THEN SubSeq(htmlName, 1, Len(htmlName) - 5) \o "_files"
    ELSE htmlName

makeFilesDirnameFromUrl(pageUrl) ==
    ReplaceHtmlSuffix(makeHtmlFilenameFromUrl(pageUrl))

\* The name from the page's host, the resolved pathname and its extname:
\* ext is '.html' for no extension, withoutExt the pathname cut by the
\* length of the extension.
ResourceFilenameOf(host, cleanPathname, extFromPath) ==
    sanitize(host \o (IF extFromPath = "" THEN cleanPathname
                      ELSE SubSeq(cleanPathname, 1,
                                  Len(cleanPathname) - Len(extFromPath))))
        \o (IF extFromPath = "" THEN ".html" ELSE extFromPath)

ResourceFilenameAt(host, cleanPathname) ==
    ResourceFilenameOf(host, cleanPathname, PathExtname(cleanPathname))

\* The name of the earlier version (src/src/index.js, lines 103-115), taken
\* from the reference as written.
makeResourceFilenameRaw(pageUrl, resourcePath) ==
    ResourceFilenameAt(Url1(pageUrl).host, resourcePath)

makeResourceFilename(pageUrl, resourceUrlOrRef) ==
    ResourceFilenameAt(Url1(pageUrl).host,
                       Url2(resourceUrlOrRef, pageUrl).pathname)

(***************************************************************************)
(* The locality classifier.  The result is what the call does: it returns  *)
(* a boolean (value) or throws the TypeError of new URL (threw).           *)
(***************************************************************************)
Returns(b) == [threw |-> FALSE, value |-> b]
Throws == [threw |-> TRUE, value |-> FALSE]

\* The comparison of hosts both versions end with.
SameHost(resolved, pageUrl) ==
    IF ~resolved.ok THEN Throws
    ELSE Returns(resolved.host = Url1(pageUrl).host)

\* The classifier of the earlier version (src/src/index.js, lines 120-127):
\* a reference that names its scheme is never local.
isLocalResourcePrefix(pageUrl, ref) ==
    IF ref = "" THEN Returns(FALSE)
    ELSE IF StartsWith(ref, "http://") \/ StartsWith(ref, "https://")
            \/ StartsWith(ref, "data:")
    THEN Returns(FALSE)
    ELSE SameHost(Url2(ref, pageUrl), pageUrl)

\* resolved is new URL(ref, pageUrl).
LocalResolved(resolved, pageUrl) ==
    IF ~resolved.ok THEN Throws
    ELSE IF resolved.protocol = "data:" THEN Returns(FALSE)
    ELSE SameHost(resolved, pageUrl)

isLocalResource(pageUrl, ref) ==
    IF ref = "" THEN Returns(FALSE)
    ELSE LocalResolved(Url2(ref, pageUrl), pageUrl)

toAbsoluteResourceUrl(pageUrl, ref) == UrlToString(Url2(ref, pageUrl))

(***************************************************************************)
(* The document.  A page is a sequence of elements, each a tag and its     *)
(* attributes; the fetched body and the document cheerio serializes are    *)
(* told apart by their form, since $.html() does not give back the bytes   *)
(* cheerio.load was given.                                                 *)
(***************************************************************************)
HasAttr(el, a) == a \in DOMAIN el.attrs

Attr(el, a) == IF HasAttr(el, a) THEN el.attrs[a] ELSE ""

\* The body the server sends for a page of the given elements.
Body(elems) == [form |-> "fetched", elems |-> elems]

\* cheerio.load(html): the parsed document.
cheerioLoad(html) == html.elems

\* $.html(): the document serialized again.
cheerioHtml(doc) == [form |-> "serialized", elems |-> doc]

\* $('tag[attr]'): the elements of that tag that have the attribute, in
\* document order, as indices into the document.
RECURSIVE SelectFrom(_, _, _, _)
SelectFrom(doc, tag, a, i) ==
    IF i > Len(doc) THEN <<>>
    ELSE (IF doc[i].tag = tag /\ HasAttr(doc[i], a) THEN <<i>> ELSE <<>>)
            \o SelectFrom(doc, tag, a, i + 1)

Select(doc, tag, a) == SelectFrom(doc, tag, a, 1)

\* The references of the selected nodes sel, as collectResources reads
\* them: the node, the attribute and its value.
RefsOf(doc, a, sel) ==
    [k \in 1..Len(sel) |-> [node |-> sel[k], attr |-> a, ref |-> doc[sel[k]].attrs[a]]]

\* rel === 'stylesheet' || rel === 'canonical', rel lower-cased
RelTracked(rel) == rel = "stylesheet" \/ rel = "canonical"

\* The links among sel whose relation is tracked.
RECURSIVE TrackedLinks(_, _)
TrackedLinks(doc, sel) ==
    IF sel = <<>> THEN <<>>
    ELSE (IF RelTracked(toLowerCase(Attr(doc[Head(sel)], "rel")))
          THEN <<Head(sel)>> ELSE <<>>)
            \o TrackedLinks(doc, Tail(sel))

\* The references the first version looked at: images only.
CandidatesImages(doc) == RefsOf(doc, "src", Select(doc, "img", "src"))

\* The references collectResources looks at, in the order it does: images,
\* scripts, then the links whose relation is stylesheet or canonical.
Candidates(doc) ==
    RefsOf(doc, "src", Select(doc, "img", "src"))
        \o RefsOf(doc, "src", Select(doc, "script", "src"))
        \o RefsOf(doc, "href", TrackedLinks(doc, Select(doc, "link", "href")))

\* The calls of isLocalResource collectResources makes, in order, up to the
\* first one that throws.
RECURSIVE Classify(_, _)
RECURSIVE ClassifyNext(_, _, _)
ClassifyNext(pageUrl, cands, v) ==
    <<[ref |-> Head(cands).ref, threw |-> v.threw, value |-> v.value]>>
        \o (IF v.threw THEN <<>> ELSE Classify(pageUrl, Tail(cands)))

Classify(pageUrl, cands) ==
    IF cands = <<>> THEN <<>>
    ELSE ClassifyNext(pageUrl, cands, isLocalResource(pageUrl, Head(cands).ref))

\* The candidates whose verdict is true.
RECURSIVE Kept(_, _)
Kept(cands, verdicts) ==
    IF cands = <<>> \/ verdicts = <<>> THEN <<>>
    ELSE (IF Head(verdicts).value THEN <<Head(cands)>> ELSE <<>>)
            \o Kept(Tail(cands), Tail(verdicts))

\* What collectResources gives for the candidates and their verdicts.
Collected(cands, verdicts, threw) ==
    [threw |-> threw,
     error |-> IF threw THEN InvalidUrlError(verdicts[Len(verdicts)].ref)
               ELSE NoError,
     resources |-> IF threw THEN <<>> ELSE Kept(cands, verdicts),
     verdicts |-> verdicts]

CollectedOf(cands, verdicts) ==
    Collected(cands, verdicts,
              verdicts # <<>> /\ verdicts[Len(verdicts)].threw)

CollectFrom(pageUrl, cands) == CollectedOf(cands, Classify(pageUrl, cands))

\* collectResources(pageUrl, $): the local references, or the exception
\* of the first reference that cannot be resolved.
collectResources(pageUrl, doc) == CollectFrom(pageUrl, Candidates(doc))

(***************************************************************************)
(* The environment: the server and the file system.                        *)
(***************************************************************************)
\* What a file holds: a page body (fetched or serialized, with its
\* elements) or the payload the server sends for a URL (from).
Content(form, elems, from) == [form |-> form, elems |-> elems, from |-> from]

\* The payload of the resource at url: the bytes the server sends for it.
Payload(url) == Content("resource", <<>>, url)

\* A file left by an earlier run.
StaleContent == Content("stale", <<>>, "")

\* How axios.get settles: it resolves with a response whose status is 2xx,
\* rejects with err.response for any other status, and rejects without a
\* response (status 0) when the transport fails with the given code.
AxiosOutcomes ==
    { [resolved |-> TRUE, status |-> 200, code |-> ""],
      [resolved |-> TRUE, status |-> 204, code |-> ""],
      [resolved |-> FALSE, status |-> 404, code |-> "ERR_BAD_REQUEST"],
      [resolved |-> FALSE, status |-> 0, code |-> "ECONNREFUSED"] }

\* The directory a path lies in.
DirnameAt(path, i) ==
    IF i = 0 THEN "." ELSE IF i = 1 THEN "/" ELSE SubSeq(path, 1, i - 1)

Dirname(path) == DirnameAt(path, LastIndexOf(path, "/"))

\* How fs.writeFile(path) can settle given the directories that exist: ""
\* is success, anything else the code of the error it rejects with.
FsWriteOutcomes(dirSet, path) ==
    IF Dirname(path) \notin dirSet THEN {"ENOENT"} ELSE {"", "EACCES"}

\* How fs.mkdir(path), not recursive, can settle.
FsMkdirOutcomes(dirSet, path) ==
    IF Dirname(path) \notin dirSet THEN {"ENOENT"}
    ELSE IF path \in dirSet THEN {"EEXIST"}
    ELSE {"", "EACCES"}

(***************************************************************************)
(* The fetch and persist wrappers.  Each takes the way the underlying call *)
(* settled and gives the way the wrapper settles.                          *)
(***************************************************************************)
Fulfilled == [ok |-> TRUE, error |-> NoError]
Rejected(err) == [ok |-> FALSE, error |-> err]

\* The wrapper without the status check on a resolved response.
fetchOrThrowAnySuccess(url, ax) ==
    IF ax.resolved THEN Fulfilled
    ELSE IF ax.status # 0
    THEN Rejected(HttpError(url, ax.status,
                            [code |-> ax.code, status |-> ax.status]))
    ELSE Rejected(NetworkError(url, [code |-> ax.code, status |-> 0]))

\* The wrapper that drops the transport error it caught.
fetchOrThrowNoCause(url, ax) ==
    IF ax.resolved
    THEN IF ax.status # 200
         THEN Rejected(HttpError(url, ax.status, NoCause))
         ELSE Fulfilled
    ELSE IF ax.status # 0
    THEN Rejected(HttpError(url, ax.status, NoCause))
    ELSE Rejected(NetworkError(url, NoCause))

\* axios.get(url, config) settled as ax, through the .then and the .catch.
fetchOrThrow(url, ax) ==
    IF ax.resolved
    THEN IF ax.status # 200
         THEN Rejected(HttpError(url, ax.status, NoCause))
         ELSE Fulfilled
    ELSE IF ax.status # 0
    THEN Rejected(HttpError(url, ax.status,
                            [code |-> ax.code, status |-> ax.status]))
    ELSE Rejected(NetworkError(url, [code |-> ax.code, status |-> 0]))

writeFileOrThrow(filepath, code) ==
    IF code = "" THEN Fulfilled
    ELSE Rejected(FileSystemError("Cannot write file " \o filepath, filepath,
                                  [code |-> code, status |-> 0]))

mkdirOrThrow(dirpath, code) ==
    IF code = "" THEN Fulfilled
    ELSE Rejected(FileSystemError("Cannot create directory " \o dirpath,
                                  dirpath, [code |-> code, status |-> 0]))

(***************************************************************************)
(* Resource jobs and the batch.                                            *)
(***************************************************************************)
\* The value path.join gives on win32.
LocalRefWin32(filesDirname, filename) == filesDirname \o "\\" \o filename

\* The value written into the attribute of a local reference.
LocalRef(filesDirname, filename) == PathJoin(filesDirname, filename)

\* The job built for one resource; st is where its run is: "new" (not
\* run), "fetching", "writing", "done" or "failed".
JobOf(absUrl, resourcePath, node) ==
    [title |-> absUrl, url |-> absUrl, path |-> resourcePath,
     node |-> node, st |-> "new", runs |-> 0, error |-> NoError]

\* The job that would store a resource under the path of its reference.
ResourceJobAtRef(pageUrl, dirPath, r) ==
    JobOf(toAbsoluteResourceUrl(pageUrl, r.ref), PathJoin(dirPath, r.ref),
          r.node)

ResourceJob(pageUrl, dirPath, r) ==
    JobOf(toAbsoluteResourceUrl(pageUrl, r.ref),
          PathJoin(dirPath, makeResourceFilename(pageUrl, r.ref)), r.node)

\* resources.map(...): the jobs, in the order of the resources.
resourceJobs(pageUrl, dirPath, res) ==
    [k \in 1..Len(res) |-> ResourceJob(pageUrl, dirPath, res[k])]

\* Only the first node.attr call made before the runs start.
RewriteHead(d, pageUrl, dirname, res) ==
    IF res = <<>> THEN d
    ELSE [d EXCEPT ![Head(res).node].attrs[Head(res).attr] =
            LocalRef(dirname, makeResourceFilename(pageUrl, Head(res).ref))]

\* The document after the node.attr(attr, ...) calls of resources.map.
RECURSIVE Rewrite(_, _, _, _)
Rewrite(d, pageUrl, dirname, res) ==
    IF res = <<>> THEN d
    ELSE Rewrite(
            [d EXCEPT ![Head(res).node].attrs[Head(res).attr] =
                LocalRef(dirname, makeResourceFilename(pageUrl, Head(res).ref))],
            pageUrl, dirname, Tail(res))

\* A job run by the join and once more by the task list.
RunTwice(job) == [job EXCEPT !.st = "fetching", !.runs = @ + 2]

\* job.run(): downloadAndSave starts with the fetch.
Run(job) == [job EXCEPT !.st = "fetching", !.runs = @ + 1]

\* How a promise over the jobs' runs stands.
AnyFailed(js) == \E k \in DOMAIN js : js[k].st = "failed"
AllDone(js) == \A k \in DOMAIN js : js[k].st = "done"

\* A join that waits for every run and ignores failures.
PromiseAllSettled(js) ==
    IF \A k \in DOMAIN js : js[k].st \in {"done", "failed"}
    THEN "fulfilled" ELSE "pending"

\* A join that is fulfilled by the first run that is done.
PromiseAny(js) ==
    IF \E k \in DOMAIN js : js[k].st = "done" THEN "fulfilled"
    ELSE IF \A k \in DOMAIN js : js[k].st = "failed" THEN "rejected"
    ELSE "pending"

\* Promise.all(resourceJobs.map((job) => job.run()))
PromiseAll(js) ==
    IF AnyFailed(js) THEN "rejected"
    ELSE IF AllDone(js) THEN "fulfilled" ELSE "pending"

\* The run of a Listr with exitOnError: false: it settles when every task
\* has, rejecting when one of them failed.
ListrRunCollectErrors(js) ==
    IF \E k \in DOMAIN js : js[k].st \notin {"done", "failed"} THEN "pending"
    ELSE IF AnyFailed(js) THEN "rejected" ELSE "fulfilled"

\* new Listr(tasks, {concurrent: true}).run(): every task is started, the
\* first error is thrown on (exitOnError), the run resolves when all are done.
ListrRun(js) ==
    IF AnyFailed(js) THEN "rejected"
    ELSE IF AllDone(js) THEN "fulfilled" ELSE "pending"

\* The promise downloadResources returns, given where the runs stand.
downloadResources(js, showProgress) ==
    IF ~showProgress THEN PromiseAll(js) ELSE ListrRun(js)

(***************************************************************************)
(* The inputs Init draws.                                                  *)
(***************************************************************************)
El(tag, attrs) == [tag |-> tag, attrs |-> attrs]

\* The elements pages are made of, in document order: each tracked element
\* kind, with local references of every shape (protocol-relative,
\* path-absolute, relative with a query and with more ".." segments than
\* the page URL has directories, absolute), references that are not
\* local (another host, a subdomain, data:), an empty and an unresolvable
\* reference, an untracked relation and an untracked element, two
\* references that differ in their query only and one that occurs twice.
Elements ==
    << El("script", [src |-> "//example.com/js/app.js"]),
       El("img", [src |-> "/img/x.png"]),
       El("img", [src |-> "/img/x.png?v=2"]),
       El("link", [rel |-> "stylesheet", href |-> "../../css/a.css?v=1"]),
       El("img", [src |-> "https://other.com/y.png"]),
       El("link", [rel |-> "Canonical", href |-> "https://example.com/a/b"]),
       El("img", [src |-> "data:image/png;base64,AA"]),
       El("img", [src |-> ""]),
       El("script", [src |-> "https://cdn.example.com/v3/"]),
       El("link", [rel |-> "icon", href |-> "/favicon.ico"]),
       El("a", [href |-> "/about"]),
       El("img", [src |-> "/img/x.png"]),
       El("img", [src |-> "http://"]) >>

\* The attribute of an element that holds its reference.
RefAttr(el) == IF el.tag \in {"img", "script"} THEN "src" ELSE "href"

\* The numbers of S in increasing order.
RECURSIVE Ascending(_)
Ascending(S) ==
    IF S = {} THEN <<>>
    ELSE <<MinOf(S)>> \o Ascending(S \ {MinOf(S)})

\* The page made of the elements picked, in document order.
PageOf(picked) == [k \in 1..Len(picked) |-> Elements[picked[k]]]

\* The pages: every choice of at most MaxElems of the elements.
Pages ==
    { PageOf(Ascending(S)) :
        S \in { T \in SUBSET (1..Len(Elements)) : Cardinality(T) <= MaxElems } }

\* The page URLs: one valid, one that new URL rejects (it has no scheme).
PageUrls == {"https://example.com/a/b", "example.com/a/b"}

\* The output directories: one relative to the working directory, so that
\* the path load resolves to differs from the path it writes, and one
\* absolute.
OutputDirs == {"dl", "/out"}

(***************************************************************************)
(* The state of one invocation load(pageUrl, outputDir, {progress}).       *)
(***************************************************************************)
VARIABLES
    urlArg,      \* the first argument (pageUrl)
    outputDir,   \* the second argument
    progress,    \* options.progress
    page,        \* the elements of the page the server holds at pageUrl
    dirs,        \* the directories that exist
    files,       \* the files that exist: path -> content
    pc,          \* where the driver is: "idle", "fetchPage", "mkdir",
                 \* "join", "writePage", "done"
    dom,         \* the parsed document ($)
    resources,   \* the result of collectResources
    jobs,        \* the resource jobs and where each run stands
    pageWrite,   \* the content handed to the page's writeFile
    outcome,     \* how the call stands: pending, resolved, rejected, thrown
    classified,  \* the calls of isLocalResource made, with their results
    fetches,     \* the requests settled: url, how axios settled, the error
    fsLog,       \* the file-system calls settled: op, path, code
    naming,      \* the naming functions applied on their own: the
                 \* reference given and the names computed so far
    cli          \* the command-line process: whether the result of load
                 \* was reported, the exit code the process ends with,
                 \* the lines on its output and error streams

vars ==
    <<urlArg, outputDir, progress, page, dirs, files, pc, dom, resources,
      jobs, pageWrite, outcome, classified, fetches, fsLog, naming, cli>>

\* The constants load computes before the page fetch.
htmlFilename == makeHtmlFilenameFromUrl(urlArg)
filesDirname == makeFilesDirnameFromUrl(urlArg)
htmlPath == PathJoin(outputDir, htmlFilename)
filesDirPath == PathJoin(outputDir, filesDirname)
absoluteHtmlPath == PathResolve(htmlPath)
showProgress == progress = TRUE

Pending == [kind |-> "pending", value |-> "", error |-> NoError]
ResolvedWith(v) == [kind |-> "resolved", value |-> v, error |-> NoError]
RejectedWith(e) == [kind |-> "rejected", value |-> "", error |-> e]
ThrownWith(e) == [kind |-> "thrown", value |-> "", error |-> e]

NoContent == Content("", <<>>, "")

\* Nothing named: no reference given, no name computed.
NoNaming ==
    [ref |-> "", html |-> "", dir |-> "", htmlPath |-> "", dirPath |-> "",
     resource |-> ""]

\* The process as the action handler finds it: process.exitCode unset,
\* nothing printed.
NoCli == [reported |-> FALSE, exitCode |-> 0, stdout |-> <<>>, stderr |-> <<>>]

\* The file systems an invocation can start in: the output directory
\* missing, present and empty, or holding what an earlier load of the same
\* page left there.
Init ==
    /\ urlArg \in PageUrls
    /\ outputDir \in OutputDirs
    /\ progress \in BOOLEAN
    /\ page \in Pages
    /\ ~Url1(urlArg).ok => page = <<>> /\ progress = FALSE
    /\ \/ dirs = {} /\ files = <<>>
       \/ dirs = {PathNormalize(outputDir)} /\ files = <<>>
       \/ /\ Url1(urlArg).ok
          /\ dirs = {PathNormalize(outputDir), filesDirPath}
          /\ files = (htmlPath :> StaleContent)
    /\ pc = "idle"
    /\ dom = <<>>
    /\ resources = <<>>
    /\ jobs = <<>>
    /\ pageWrite = NoContent
    /\ outcome = Pending
    /\ classified = <<>>
    /\ fetches = {}
    /\ fsLog = {}
    /\ naming = NoNaming
    /\ cli = NoCli

\* files with path holding content.
WithFile(fs, path, content) ==
    [p \in DOMAIN fs \cup {path} |-> IF p = path THEN content ELSE fs[p]]

\* The promise load returned is rejected with err: the .catch of load logs
\* and throws it on.
Reject(err) == pc' = "done" /\ outcome' = RejectedWith(err)

(***************************************************************************)
(* load is called: the names and paths are computed, which throws when     *)
(* urlArg is no URL, and the page fetch is started.                       *)
(***************************************************************************)
Load ==
    /\ pc = "idle"
    /\ IF ~Url1(urlArg).ok
       THEN pc' = "done" /\ outcome' = ThrownWith(InvalidUrlError(urlArg))
       ELSE pc' = "fetchPage" /\ outcome' = outcome
    /\ UNCHANGED <<cli, naming, urlArg, outputDir, progress, page, dirs, files, dom,
                   resources, jobs, pageWrite, classified, fetches, fsLog>>

\* The failing page fetch of a loader that made the resources directory
\* before it asked for the page.
PageFetchFailsAfterMkdir ==
    /\ pc = "fetchPage"
    /\ \E ax \in AxiosOutcomes :
        LET r == fetchOrThrow(urlArg, ax)
        IN /\ ~r.ok
           /\ fetches' = fetches \cup {[url |-> urlArg, ax |-> ax,
                                        error |-> r.error]}
           /\ Reject(r.error)
    /\ dirs' = dirs \cup {filesDirPath}
    /\ UNCHANGED <<cli, naming, urlArg, outputDir, progress, page, files, dom,
                   resources, jobs, pageWrite, classified, fsLog>>

(***************************************************************************)
(* The page fetch fails: fetchOrThrow rejects and so does load.            *)
(***************************************************************************)
PageFetchFails ==
    /\ pc = "fetchPage"
    /\ \E ax \in AxiosOutcomes :
        LET r == fetchOrThrow(urlArg, ax)
        IN /\ ~r.ok
           /\ fetches' = fetches \cup {[url |-> urlArg, ax |-> ax, error |-> r.error]}
           /\ Reject(r.error)
    /\ UNCHANGED <<cli, naming, urlArg, outputDir, progress, page, dirs, files, dom,
                   resources, jobs, pageWrite, classified, fsLog>>

\* The serialized document in place of the fetched body.
HtmlSerialized(html, parsed) == cheerioHtml(parsed)

\* The content written when the page has no local resource.
HtmlOnly(html, parsed) == html

(***************************************************************************)
(* The page is fetched: it is parsed, its local resources are collected    *)
(* (which throws on a reference that is no URL), and either the page write *)
(* (no local resource) or the mkdir of the resources directory is started. *)
(***************************************************************************)
\* The then-callback of load for the body html, parsed as parsed, whose
\* collectResources gave c.
OnPage(html, parsed, c) ==
    /\ dom' = parsed
    /\ classified' = c.verdicts
    /\ resources' = c.resources
    /\ IF c.threw
       THEN Reject(c.error) /\ pageWrite' = pageWrite
       ELSE IF Len(c.resources) = 0
       THEN /\ pc' = "writePage"
            /\ pageWrite' = HtmlOnly(html, parsed)
            /\ outcome' = outcome
       ELSE /\ pc' = "mkdir"
            /\ pageWrite' = pageWrite
            /\ outcome' = outcome

PageFetched ==
    /\ pc = "fetchPage"
    /\ \E ax \in AxiosOutcomes :
        /\ fetchOrThrow(urlArg, ax).ok
        /\ fetches' = fetches \cup {[url |-> urlArg, ax |-> ax, error |-> NoError]}
    /\ OnPage(Body(page), cheerioLoad(Body(page)),
              collectResources(urlArg, cheerioLoad(Body(page))))
    /\ UNCHANGED <<cli, naming, urlArg, outputDir, progress, page, dirs, files, jobs, fsLog>>

(***************************************************************************)
(* fs.mkdir of the resources directory settles.  On success the jobs are   *)
(* built, the attributes rewritten and every job is run.                   *)
(***************************************************************************)
MkdirSettles ==
    /\ pc = "mkdir"
    /\ \E code \in FsMkdirOutcomes(dirs, filesDirPath) :
        LET r == mkdirOrThrow(filesDirPath, code)
            built == resourceJobs(urlArg, filesDirPath, resources)
        IN /\ fsLog' = fsLog \cup {[op |-> "mkdir", path |-> filesDirPath, code |-> code]}
           /\ IF ~r.ok
              THEN /\ Reject(r.error)
                   /\ UNCHANGED <<dirs, dom, jobs>>
              ELSE /\ dirs' = dirs \cup {filesDirPath}
                   /\ dom' = Rewrite(dom, urlArg, filesDirname, resources)
                   /\ jobs' = [k \in DOMAIN built |-> Run(built[k])]
                   /\ pc' = "join"
                   /\ outcome' = outcome
    /\ UNCHANGED <<cli, naming, urlArg, outputDir, progress, page, files, resources,
                   pageWrite, classified, fetches>>

\* A driver that reports the failure of every run, the later ones over
\* the first.
AfterRunLastError(js, err) ==
    LET batch == downloadResources(js, showProgress)
    IN IF batch = "rejected" /\ err # NoError
       THEN Reject(err) /\ pageWrite' = pageWrite
       ELSE IF pc = "join" /\ batch = "fulfilled"
       THEN /\ pc' = "writePage"
            /\ pageWrite' = cheerioHtml(dom)
            /\ outcome' = outcome
       ELSE UNCHANGED <<pc, pageWrite, outcome>>

\* What the driver does when a run has settled and the jobs stand as js:
\* while it waits for the batch, a rejected batch rejects load with the
\* error of the run that just failed, and a fulfilled one starts the write
\* of the serialized document.
AfterRun(js, err) ==
    LET batch == downloadResources(js, showProgress)
    IN IF pc = "join" /\ batch = "rejected"
       THEN Reject(err) /\ pageWrite' = pageWrite
       ELSE IF pc = "join" /\ batch = "fulfilled"
       THEN /\ pc' = "writePage"
            /\ pageWrite' = cheerioHtml(dom)
            /\ outcome' = outcome
       ELSE UNCHANGED <<pc, pageWrite, outcome>>

(***************************************************************************)
(* The fetch of job i settles: downloadAndSave goes on to the write of the *)
(* payload, or fails.                                                      *)
(***************************************************************************)
ResourceFetchSettles(i) ==
    /\ jobs[i].st = "fetching"
    /\ \E ax \in AxiosOutcomes :
        LET r == fetchOrThrow(jobs[i].url, ax)
            js == [jobs EXCEPT ![i].st = IF r.ok THEN "writing" ELSE "failed",
                               ![i].error = r.error]
        IN /\ fetches' = fetches \cup {[url |-> jobs[i].url, ax |-> ax, error |-> r.error]}
           /\ jobs' = js
           /\ AfterRun(js, r.error)
    /\ UNCHANGED <<cli, naming, urlArg, outputDir, progress, page, dirs, files, dom,
                   resources, classified, fsLog>>

\* The write of job i's payload, were it called off once load has
\* rejected.
ResourceWriteUnlessRejected(i) ==
    /\ jobs[i].st = "writing"
    /\ outcome.kind # "rejected"
    /\ \E code \in FsWriteOutcomes(dirs, jobs[i].path) :
        LET r == writeFileOrThrow(jobs[i].path, code)
            js == [jobs EXCEPT ![i].st = IF r.ok THEN "done" ELSE "failed",
                               ![i].error = r.error]
        IN /\ fsLog' = fsLog \cup {[op |-> "writeFile", path |-> jobs[i].path,
                                    code |-> code]}
           /\ files' = IF r.ok
                       THEN WithFile(files, jobs[i].path, Payload(jobs[i].url))
                       ELSE files
           /\ jobs' = js
           /\ AfterRun(js, r.error)
    /\ UNCHANGED <<cli, naming, urlArg, outputDir, progress, page, dirs, dom,
                   resources, classified, fetches>>

(***************************************************************************)
(* The write of job i's payload settles.                                   *)
(***************************************************************************)
ResourceWriteSettles(i) ==
    /\ jobs[i].st = "writing"
    /\ \E code \in FsWriteOutcomes(dirs, jobs[i].path) :
        LET r == writeFileOrThrow(jobs[i].path, code)
            js == [jobs EXCEPT ![i].st = IF r.ok THEN "done" ELSE "failed",
                               ![i].error = r.error]
        IN /\ fsLog' = fsLog \cup {[op |-> "writeFile", path |-> jobs[i].path, code |-> code]}
           /\ files' = IF r.ok THEN WithFile(files, jobs[i].path, Payload(jobs[i].url))
                       ELSE files
           /\ jobs' = js
           /\ AfterRun(js, r.error)
    /\ UNCHANGED <<cli, naming, urlArg, outputDir, progress, page, dirs, dom, resources,
                   classified, fetches>>

(***************************************************************************)
(* The write of the page file settles: load resolves to the absolute path  *)
(* of the page file, or rejects.                                           *)
(***************************************************************************)
PageWriteSettles ==
    /\ pc = "writePage"
    /\ \E code \in FsWriteOutcomes(dirs, htmlPath) :
        LET r == writeFileOrThrow(htmlPath, code)
        IN /\ fsLog' = fsLog \cup {[op |-> "writeFile", path |-> htmlPath, code |-> code]}
           /\ IF r.ok
              THEN /\ files' = WithFile(files, htmlPath, pageWrite)
                   /\ pc' = "done"
                   /\ outcome' = ResolvedWith(absoluteHtmlPath)
              ELSE /\ files' = files
                   /\ Reject(r.error)
    /\ UNCHANGED <<cli, naming, urlArg, outputDir, progress, page, dirs, dom, resources,
                   jobs, pageWrite, classified, fetches>>

Next ==
    \/ Load
    \/ PageFetchFails
    \/ PageFetched
    \/ MkdirSettles
    \/ \E i \in DOMAIN jobs : ResourceFetchSettles(i)
    \/ \E i \in DOMAIN jobs : ResourceWriteSettles(i)
    \/ PageWriteSettles

Spec == Init /\ [][Next]_vars

(***************************************************************************)
(* The naming functions on their own: the page URL, the output directory   *)
(* and a reference are drawn, and each function is applied to them as load *)
(* applies it (lines 300-304 and 334).                                     *)
(***************************************************************************)
\* Page URLs new URL accepts: with and without a path, with a query and a
\* fragment, with a port, upper case and a path that ends in a slash, and
\* with a path that ends in ".html".
NamingUrls ==
    { "https://example.com/a/b",
      "https://example.com/a/b?x=1#top",
      "https://example.com",
      "http://Example.com:8080/A_b/c.d/",
      "https://example.com/a/b.html" }

\* References new URL resolves against these: with and without an
\* extension, with a query and a fragment, relative, protocol-relative and
\* absolute, with dots in directories, a leading and a trailing dot,
\* trailing slashes after an extension, an extension in upper case and
\* one holding a character that is neither a letter nor a digit.
NamingRefs ==
    { "/img/x.png", "/img/x.png?v=2", "/img/x.png#top", "/img/x.png?v=2#top",
      "img/x.png", "//example.com/img/x.png", "https://other.com/img/x.png?a=b",
      "/about", "/about?page=2.json", "/v3/", "/",
      "/a.b/c", "/x.tar.gz", "/.hidden", "/a.", "/pkg.v2/", "/pkg.v2//",
      "/IMG/Y.PNG", "../up.css", "?only=query", "/lib.min_js" }

NamingInit ==
    /\ urlArg \in NamingUrls
    /\ outputDir \in OutputDirs
    /\ naming \in { [NoNaming EXCEPT !.ref = r] : r \in NamingRefs }
    /\ progress = FALSE
    /\ page = <<>>
    /\ dirs = {}
    /\ files = <<>>
    /\ pc = "idle"
    /\ dom = <<>>
    /\ resources = <<>>
    /\ jobs = <<>>
    /\ pageWrite = NoContent
    /\ outcome = Pending
    /\ classified = <<>>
    /\ fetches = {}
    /\ fsLog = {}
    /\ cli = NoCli

\* const htmlFilename = makeHtmlFilenameFromUrl(pageUrl)
NamePage ==
    /\ naming.html = ""
    /\ naming' = [naming EXCEPT !.html = makeHtmlFilenameFromUrl(urlArg)]
    /\ UNCHANGED <<cli, urlArg, outputDir, progress, page, dirs, files, pc, dom,
                   resources, jobs, pageWrite, outcome, classified, fetches,
                   fsLog>>

\* const filesDirname = makeFilesDirnameFromUrl(pageUrl)
NameDir ==
    /\ naming.dir = ""
    /\ naming' = [naming EXCEPT !.dir = makeFilesDirnameFromUrl(urlArg)]
    /\ UNCHANGED <<cli, urlArg, outputDir, progress, page, dirs, files, pc, dom,
                   resources, jobs, pageWrite, outcome, classified, fetches,
                   fsLog>>

\* const htmlPath = path.join(outputDir, htmlFilename);
\* const filesDirPath = path.join(outputDir, filesDirname)
NamePaths ==
    /\ naming.html # "" /\ naming.dir # "" /\ naming.htmlPath = ""
    /\ naming' = [naming EXCEPT !.htmlPath = PathJoin(outputDir, naming.html),
                                !.dirPath = PathJoin(outputDir, naming.dir)]
    /\ UNCHANGED <<cli, urlArg, outputDir, progress, page, dirs, files, pc, dom,
                   resources, jobs, pageWrite, outcome, classified, fetches,
                   fsLog>>

\* const filename = makeResourceFilename(pageUrl, ref)
NameResource ==
    /\ naming.resource = ""
    /\ naming' = [naming EXCEPT
                    !.resource = makeResourceFilename(urlArg, naming.ref)]
    /\ UNCHANGED <<cli, urlArg, outputDir, progress, page, dirs, files, pc, dom,
                   resources, jobs, pageWrite, outcome, classified, fetches,
                   fsLog>>

NamingNext ==
    \/ NamePage
    \/ NameDir
    \/ NamePaths
    \/ NameResource

NamingSpec == NamingInit /\ [][NamingNext]_vars

(***************************************************************************)
(* The command-line program (bin/page-loader.js).  Its action handler      *)
(* calls load with the arguments and hangs a .then and a .catch on the     *)
(* promise it gets; a stream is the sequence of the lines written to it.   *)
(***************************************************************************)
\* The lines of text, which console.log and console.error end with a
\* newline.
RECURSIVE LinesFrom(_, _, _)
LinesFrom(text, start, i) ==
    IF i > Len(text) THEN <<SubSeq(text, start, Len(text))>>
    ELSE IF Ch(text, i) = "\n"
    THEN <<SubSeq(text, start, i - 1)>> \o LinesFrom(text, i + 1, i + 1)
    ELSE LinesFrom(text, start, i + 1)

Lines(text) == LinesFrom(text, 1, 1)

\* error.resourceUrl || error.filepath || 'unknown resource'
CliResource(error) ==
    IF error.resourceUrl # "" THEN error.resourceUrl
    ELSE IF error.filepath # "" THEN error.filepath
    ELSE "unknown resource"

\* error.status || error.cause.response.status, 'unknown' when neither is.
CliStatus(error) ==
    IF error.status # 0 THEN DecimalOf(error.status)
    ELSE IF error.cause.status # 0 THEN DecimalOf(error.cause.status)
    ELSE "unknown"

\* The code of the cause in parentheses, when the cause has one.
CliCode(error) ==
    IF error.cause.code # "" THEN " (" \o error.cause.code \o ")" ELSE ""

formatCliError(error) ==
    IF error.name = "HttpError"
    THEN "Error: HTTP " \o CliStatus(error) \o " while fetching "
         \o CliResource(error)
    ELSE IF error.name = "NetworkError"
    THEN "Error: Network problem while fetching " \o CliResource(error)
         \o CliCode(error)
    ELSE IF error.name = "FileSystemError"
    THEN "Error: File system problem: " \o error.message \o CliCode(error)
    ELSE "Error: " \o error.message

\* What the runtime prints for an exception nothing caught: the error and
\* the frames it was thrown through.
UncaughtReport(error) ==
    <<error.name \o ": " \o error.message,
      "    at new URL",
      "    at makeHtmlFilenameFromUrl",
      "    at load">>

\* .then((filepath) => console.log(filepath)); process.exitCode stays
\* unset, so the process ends with 0.
CliThen ==
    /\ ~cli.reported
    /\ outcome.kind = "resolved"
    /\ cli' = [cli EXCEPT !.reported = TRUE,
                          !.stdout = @ \o Lines(outcome.value)]
    /\ UNCHANGED <<naming, urlArg, outputDir, progress, page, dirs, files, pc,
                   dom, resources, jobs, pageWrite, outcome, classified,
                   fetches, fsLog>>

\* .catch((error) => { console.error(formatCliError(error));
\*                     process.exitCode = 1; })
CliCatch ==
    /\ ~cli.reported
    /\ outcome.kind = "rejected"
    /\ cli' = [cli EXCEPT !.reported = TRUE,
                          !.exitCode = 1,
                          !.stderr = @ \o Lines(formatCliError(outcome.error))]
    /\ UNCHANGED <<naming, urlArg, outputDir, progress, page, dirs, files, pc,
                   dom, resources, jobs, pageWrite, outcome, classified,
                   fetches, fsLog>>

\* The call of load threw: there is no promise to hang the handlers on and
\* no try around the call, so the exception leaves the action handler and
\* program.parse, and the runtime reports it and ends the process.
CliUncaught ==
    /\ ~cli.reported
    /\ outcome.kind = "thrown"
    /\ cli' = [cli EXCEPT !.reported = TRUE,
                          !.exitCode = 1,
                          !.stderr = @ \o UncaughtReport(outcome.error)]
    /\ UNCHANGED <<naming, urlArg, outputDir, progress, page, dirs, files, pc,
                   dom, resources, jobs, pageWrite, outcome, classified,
                   fetches, fsLog>>

CliNext ==
    \/ Next
    \/ CliThen
    \/ CliCatch
    \/ CliUncaught

CliSpec == Init /\ [][CliNext]_vars

(***************************************************************************)
(* Vocabulary of the properties.                                           *)
(***************************************************************************)
Succeeded == outcome.kind = "resolved"

\* The reference an element holds.
RefOf(el) == el.attrs[RefAttr(el)]

\* An element whose reference the loader tracks: an image or a script with
\* a source, a link with an href whose relation is stylesheet or canonical.
Tracked(el) ==
    \/ el.tag \in {"img", "script"} /\ HasAttr(el, "src")
    \/ /\ el.tag = "link" /\ HasAttr(el, "href")
       /\ toLowerCase(Attr(el, "rel")) \in {"stylesheet", "canonical"}

\* The references of the elements, and what the naming and classifying
\* functions give for them, tabulated.
Refs == { RefOf(Elements[i]) : i \in DOMAIN Elements }
IsLocalOf == [u \in PageUrls, r \in Refs |-> isLocalResource(u, r)] @@ <<>>
AbsUrlOf == [u \in PageUrls, r \in Refs |-> toAbsoluteResourceUrl(u, r)] @@ <<>>
FilenameOf == [u \in PageUrls, r \in Refs |-> makeResourceFilename(u, r)] @@ <<>>
PageFilenameOf == [u \in PageUrls |-> makeHtmlFilenameFromUrl(u)] @@ <<>>
DirnameOf == [u \in PageUrls |-> makeFilesDirnameFromUrl(u)] @@ <<>>

\* The elements of the page that hold a local reference.
LocalNodes ==
    { i \in 1..Len(page) :
        Tracked(page[i]) /\ IsLocalOf[urlArg, RefOf(page[i])] = Returns(TRUE) }

\* The tracked elements of the page whose reference is not local.
NonLocalNodes ==
    { i \in 1..Len(page) :
        Tracked(page[i]) /\ IsLocalOf[urlArg, RefOf(page[i])] = Returns(FALSE) }

\* The URL a reference of the page resolves to.
AbsUrl(i) == AbsUrlOf[urlArg, RefOf(page[i])]

\* <outputDir>/<pageFilename>, <outputDir>/<resourcesDirName> and
\* <outputDir>/<resourcesDirName>/<resourceFilename(pageUrl, ref)>.
ExpectedPagePath == outputDir \o "/" \o PageFilenameOf[urlArg]
ExpectedDirPath == outputDir \o "/" \o DirnameOf[urlArg]
ExpectedFilePath(i) ==
    ExpectedDirPath \o "/" \o FilenameOf[urlArg, RefOf(page[i])]

\* The page was fetched (the request for it settled without error).
PageWasFetched ==
    \E f \in fetches : f.url = urlArg /\ f.error = NoError

\* This invocation wrote the page file.
PageFileWritten ==
    \E l \in fsLog : l.op = "writeFile" /\ l.path = ExpectedPagePath /\ l.code = ""

(***************************************************************************)
(* C1.  Downloads and stored payloads.                                     *)
(***************************************************************************)
\* One job per local reference, run once, for the URL the reference
\* resolves to; no request for anything else but the page.
C1_Downloads ==
    /\ \A k \in DOMAIN jobs :
        /\ jobs[k].node \in LocalNodes
        /\ jobs[k].runs = 1
        /\ jobs[k].url = AbsUrl(jobs[k].node)
        /\ \A m \in DOMAIN jobs : jobs[m].node = jobs[k].node => m = k
    /\ \A f \in fetches :
        f.url = urlArg \/ \E i \in LocalNodes : f.url = AbsUrl(i)
    /\ Succeeded =>
        \A i \in LocalNodes : \E k \in DOMAIN jobs : jobs[k].node = i

\* C1 as stated: exactly one download per local reference and none for a
\* non-local one, and after a successful load the payload of every local
\* reference is stored at <outputDir>/<resourcesDirName>/<resourceFilename>.
C1_Original ==
    /\ C1_Downloads
    /\ Succeeded =>
        \A i \in LocalNodes :
            /\ ExpectedFilePath(i) \in DOMAIN files
            /\ files[ExpectedFilePath(i)] = Payload(AbsUrl(i))

\* What holds on every page, colliding filenames included: exactly one
\* download per local reference and none for a non-local one, and after a
\* successful load the file at
\* <outputDir>/<resourcesDirName>/<resourceFilename(pageUrl, ref)> holds the
\* payload of a local reference of the page that has this filename: ref's
\* own payload unless another local reference, resolving to a different
\* URL, has the same filename.
C1_Stored ==
    /\ C1_Downloads
    /\ Succeeded =>
        \A i \in LocalNodes :
            /\ ExpectedFilePath(i) \in DOMAIN files
            /\ \E j \in LocalNodes :
                /\ ExpectedFilePath(j) = ExpectedFilePath(i)
                /\ files[ExpectedFilePath(i)] = Payload(AbsUrl(j))

\* A successful load of a page that mixes a local and a non-local
\* reference.
C1_Witness ==
    /\ Succeeded
    /\ LocalNodes # {}
    /\ NonLocalNodes # {}

(***************************************************************************)
(* C2.  The attributes of the saved document.                              *)
(***************************************************************************)
\* The value the reference of element i must have in the saved document.
ExpectedAttr(i) ==
    IF i \in LocalNodes
    THEN DirnameOf[urlArg] \o "/" \o FilenameOf[urlArg, RefOf(page[i])]
    ELSE RefOf(page[i])

\* C2: in the document saved by a successful load the attribute of every
\* local reference is resourcesDirName/resourceFilename, and every other
\* element (another host, data:, untracked element or relation) is as it
\* was in the fetched page.
C2_SavedAttributes ==
    Succeeded =>
        /\ ExpectedPagePath \in DOMAIN files
        /\ Len(files[ExpectedPagePath].elems) = Len(page)
        /\ \A i \in 1..Len(page) :
            /\ files[ExpectedPagePath].elems[i].tag = page[i].tag
            /\ DOMAIN files[ExpectedPagePath].elems[i].attrs = DOMAIN page[i].attrs
            /\ \A a \in DOMAIN page[i].attrs :
                files[ExpectedPagePath].elems[i].attrs[a] =
                    IF a = RefAttr(page[i]) THEN ExpectedAttr(i)
                    ELSE page[i].attrs[a]

\* A successful load of a page with a local reference and a reference the
\* loader must leave alone.
C2_Witness ==
    /\ Succeeded
    /\ LocalNodes # {}
    /\ \E i \in 1..Len(page) : i \notin LocalNodes /\ RefOf(page[i]) # ""
    /\ files[ExpectedPagePath].form = "serialized"

(***************************************************************************)
(* C3.  A page without local resources.                                    *)
(***************************************************************************)
\* The fetched page has no local reference.
ZeroLocal == PageWasFetched /\ LocalNodes = {}

\* C3: when the fetched page has zero local references, load writes the
\* fetched body unchanged as the page file, creates no resources directory
\* and starts no resource download.
C3_NoLocalResources ==
    ZeroLocal =>
        /\ jobs = <<>>
        /\ \A l \in fsLog : l.op # "mkdir"
        /\ \A f \in fetches : f.url = urlArg
        /\ pc \in {"writePage", "done"}
        /\ Succeeded =>
            /\ ExpectedPagePath \in DOMAIN files
            /\ files[ExpectedPagePath] = Body(page)

\* A successful load of a page whose only references are not local.
C3_Witness ==
    /\ ZeroLocal
    /\ Succeeded
    /\ NonLocalNodes # {}
    /\ ExpectedDirPath \notin dirs

(***************************************************************************)
(* C4.  A failed download fails the load.                                  *)
(***************************************************************************)
\* C4: if a resource download of the invocation has failed (its fetch or
\* the write of its file), load has failed and the invocation neither has
\* written nor is writing the page file, with progress on or off.
C4_FailedDownloadFailsLoad ==
    AnyFailed(jobs) =>
        /\ outcome.kind = "rejected"
        /\ pc = "done"
        /\ ~PageFileWritten
        /\ \A l \in fsLog : l.op = "writeFile" => l.path # ExpectedPagePath

\* A download failed on its file write after another one was saved, with
\* progress on.
C4_Witness ==
    /\ progress = TRUE
    /\ \E k \in DOMAIN jobs :
        jobs[k].st = "failed" /\ jobs[k].error.name = "FileSystemError"
    /\ \E k \in DOMAIN jobs : jobs[k].st = "done"

(***************************************************************************)
(* C5, C6.  How a fetch fails.                                             *)
(***************************************************************************)
\* A response was received for the request.
ResponseReceived(f) == f.ax.status # 0

\* What the error of a failed fetch carries, whatever its kind.
HttpErrorCarries(f) ==
    f.error.name = "HttpError" =>
        f.error.status = f.ax.status /\ f.error.resourceUrl = f.url

\* A page fetch that failed is the failure of load (before the jobs are
\* built the page's is the only request).
PageFetchErrorIsOutcome ==
    \A f \in fetches :
        jobs = <<>> /\ f.error # NoError => outcome = RejectedWith(f.error)

\* C5 as stated: a fetch fails with HttpError exactly when a response with
\* a non-success status code (not 2xx) was received, and the error carries
\* the status code and the URL fetched.
C5_Original ==
    /\ \A f \in fetches :
        /\ f.error.name = "HttpError" <=>
            (ResponseReceived(f) /\ f.ax.status \notin 200..299)
        /\ HttpErrorCarries(f)
    /\ PageFetchErrorIsOutcome

\* C5 as amended: a fetch fails with HttpError exactly when a response
\* with a status code other than 200 was received (a 2xx status other than
\* 200 included); the error carries that status code and the URL fetched.
C5_HttpError ==
    /\ \A f \in fetches :
        /\ f.error.name = "HttpError" <=>
            (ResponseReceived(f) /\ f.ax.status # 200)
        /\ HttpErrorCarries(f)
    /\ PageFetchErrorIsOutcome

\* The page fetch got a 404: load failed with an HttpError of status 404
\* for the page URL.
C5_Witness ==
    /\ outcome.kind = "rejected"
    /\ outcome.error.name = "HttpError"
    /\ outcome.error.status = 404
    /\ outcome.error.resourceUrl = urlArg
    /\ \E f \in fetches : f.url = urlArg /\ f.ax.status = 404

\* C6: a fetch that obtains no response fails with a NetworkError carrying
\* the URL fetched and the transport error as its cause, never with another
\* kind, and load has failed.
C6_NetworkError ==
    \A f \in fetches :
        ~ResponseReceived(f) =>
            /\ f.error = NetworkError(f.url, [code |-> f.ax.code, status |-> 0])
            /\ f.error.cause.code # ""
            /\ outcome.kind = "rejected"
            /\ jobs = <<>> => outcome.error = f.error

\* A resource download got no response and its NetworkError is the error
\* load failed with.
C6_Witness ==
    \E k \in DOMAIN jobs :
        /\ jobs[k].error.name = "NetworkError"
        /\ jobs[k].error.resourceUrl = jobs[k].url
        /\ jobs[k].error.cause.code = "ECONNREFUSED"
        /\ outcome = RejectedWith(jobs[k].error)

(***************************************************************************)
(* C7.  A missing output directory.                                        *)
(***************************************************************************)
\* The output directory does not exist.
OutputDirMissing == outputDir \notin dirs

\* The load was rejected with a FileSystemError for filepath.
FailedOnPath(filepath) ==
    /\ outcome.kind = "rejected"
    /\ outcome.error.name = "FileSystemError"
    /\ outcome.error.filepath = filepath

\* C7: when the output directory does not exist, load of every page that
\* was fetched fails with a FileSystemError: from the write of the page
\* file when the page has no local resource, from the creation of the
\* resources directory when it has one, and then before any resource
\* download is started; the output directory is not created.
C7_MissingOutputDir ==
    OutputDirMissing /\ PageWasFetched =>
        /\ jobs = <<>>
        /\ \A f \in fetches : f.url = urlArg
        /\ pc = "done" =>
            IF LocalNodes = {}
            THEN FailedOnPath(ExpectedPagePath)
            ELSE FailedOnPath(ExpectedDirPath)

\* The same for the pages every tracked reference of which can be
\* resolved: on these the statement holds.
C7_WhenReferencesResolve ==
    (\A i \in 1..Len(page) : Tracked(page[i]) => i \in LocalNodes \cup NonLocalNodes)
        => C7_MissingOutputDir

(***************************************************************************)
(* C8.  How load fails.                                                    *)
(***************************************************************************)
\* C8: load never throws synchronously, and when the promise it returned
\* is rejected the error is an HttpError, a NetworkError or a
\* FileSystemError.
C8_TypedRejection ==
    /\ outcome.kind # "thrown"
    /\ outcome.kind = "rejected" =>
        outcome.error.name \in {"HttpError", "NetworkError", "FileSystemError"}

(***************************************************************************)
(* C9, C10.  The classifier.                                               *)
(***************************************************************************)
\* new URL(ref, pageUrl) and the host of the page, tabulated.
ResolvedOf == [u \in PageUrls, r \in Refs |-> Url2(r, u)] @@ <<>>
PageHostOf == [u \in PageUrls |-> Url1(u).host] @@ <<>>

\* The verdict C9 gives for a reference that resolves to resolved.
VerdictFor(ref, resolved, pageHost) ==
    Returns(ref # "" /\ resolved.protocol # "data:" /\ resolved.host = pageHost)

C10_NeverRaises ==
    /\ \A k \in DOMAIN classified :
        /\ ~classified[k].threw
        /\ ~ResolvedOf[urlArg, classified[k].ref].ok => ~classified[k].value
    /\ PageWasFetched => outcome.error.name # "TypeError"

(***************************************************************************)
(* C11.  What the extractor yields.                                        *)
(***************************************************************************)
\* Every tracked reference of the page can be resolved against the page
\* URL.
ReferencesResolve ==
    \A i \in 1..Len(page) : Tracked(page[i]) => i \in LocalNodes \cup NonLocalNodes

\* C11: collectResources yields a reference for an element exactly when
\* the element is tracked (an image or a script with a source, a link with
\* an href whose relation is stylesheet or canonical, compared without
\* case) and its reference is local, with the element's attribute and
\* value; no other element gets a job or is rewritten.
C11_Extractor ==
    PageWasFetched =>
        /\ { resources[k].node : k \in DOMAIN resources } = LocalNodes
        /\ \A k \in DOMAIN resources :
            /\ resources[k].attr = RefAttr(page[resources[k].node])
            /\ resources[k].ref = RefOf(page[resources[k].node])
            /\ \A m \in DOMAIN resources :
                resources[m].node = resources[k].node => m = k
        /\ \A k \in DOMAIN jobs : jobs[k].node \in LocalNodes
        /\ Len(dom) = Len(page)
        /\ \A i \in 1..Len(page) : i \notin LocalNodes => dom[i] = page[i]

\* The same for the pages every tracked reference of which resolves: on
\* these the statement holds.
C11_WhenReferencesResolve == ReferencesResolve => C11_Extractor

(***************************************************************************)
(* C12.  What load resolves to.                                            *)
(***************************************************************************)
\* The absolute path of <outputDir>/<pageFilename>: the path itself when
\* outputDir is absolute, below the working directory otherwise.
ExpectedAbsolutePath ==
    IF Ch(outputDir, 1) = "/" THEN ExpectedPagePath
    ELSE Cwd \o "/" \o ExpectedPagePath

\* C12: when the promise of load is resolved, its value is the absolute
\* path of <outputDir>/<pageFilename(url)>, and the page file has been
\* written at <outputDir>/<pageFilename(url)> by this invocation with the
\* content load handed over.
C12_ResolvedPath ==
    Succeeded =>
        /\ outcome.value = ExpectedAbsolutePath
        /\ PageFileWritten
        /\ ExpectedPagePath \in DOMAIN files
        /\ files[ExpectedPagePath] = pageWrite
        /\ files[ExpectedPagePath].form \in {"fetched", "serialized"}

\* load resolved for a relative output directory, after the resources
\* directory was created and the downloads were saved.
C12_Witness ==
    /\ Succeeded
    /\ outputDir = "dl"
    /\ outcome.value = "/home/u/dl/example-com-a-b.html"
    /\ \E l \in fsLog : l.op = "mkdir" /\ l.code = ""

(***************************************************************************)
(* C13.  The page filename.                                                *)
(***************************************************************************)
\* An ASCII letter or digit.
IsAsciiAlnum(c) ==
    c \in Chars("abcdefghijklmnopqrstuvwxyzABCDEFGHIJKLMNOPQRSTUVWXYZ0123456789")

\* to is from with every character that is no ASCII letter or digit
\* replaced, one for one, by "-".
Sanitized(from, to) ==
    /\ Len(to) = Len(from)
    /\ \A i \in 1..Len(from) :
        Ch(to, i) = IF IsAsciiAlnum(Ch(from, i)) THEN Ch(from, i) ELSE "-"

\* A URL without its query string and fragment.
WithoutQueryAndFragment(u) == Before(Before(u, "#"), "?")

\* Host and path of the page URLs, and the page filename of each URL
\* without its query and fragment, tabulated.
HostAndPathOf ==
    [u \in NamingUrls |-> Url1(u).host \o Url1(u).pathname] @@ <<>>
BareUrlOf == [u \in NamingUrls |-> WithoutQueryAndFragment(u)] @@ <<>>
BareFilenameOf ==
    [u \in NamingUrls |->
        makeHtmlFilenameFromUrl(WithoutQueryAndFragment(u))] @@ <<>>

\* name is sanitized followed by suffix.
NameWithSuffix(name, stem, suffix) ==
    /\ Len(name) = Len(stem) + Len(suffix)
    /\ SubSeq(name, 1, Len(stem)) = stem
    /\ SubSeq(name, Len(stem) + 1, Len(name)) = suffix

\* C13: the page filename computed for a valid page URL is host and path
\* with every character that is no ASCII letter or digit replaced by "-",
\* followed by ".html"; it is the name of the URL without its query and
\* fragment; https://example.com/a/b gives example-com-a-b.html.
C13_PageFilename ==
    naming.html # "" =>
        /\ Len(naming.html) = Len(HostAndPathOf[urlArg]) + 5
        /\ Sanitized(HostAndPathOf[urlArg],
                     SubSeq(naming.html, 1, Len(HostAndPathOf[urlArg])))
        /\ SubSeq(naming.html, Len(HostAndPathOf[urlArg]) + 1,
                  Len(naming.html)) = ".html"
        /\ naming.html = BareFilenameOf[urlArg]
        /\ BareUrlOf[urlArg] = "https://example.com/a/b" =>
            naming.html = "example-com-a-b.html"

\* The page filename was computed for a URL with a query and a fragment,
\* and for one with a port, upper case and a trailing slash.
C13_Witness ==
    \/ /\ urlArg = "https://example.com/a/b?x=1#top"
       /\ naming.html = "example-com-a-b.html"
       /\ naming.resource # ""
    \/ /\ urlArg = "http://Example.com:8080/A_b/c.d/"
       /\ naming.html = "example-com-8080-A-b-c-d-.html"
       /\ naming.resource # ""

(***************************************************************************)
(* C14.  The name of the resources directory.                              *)
(***************************************************************************)
\* The page filename of the page URLs, tabulated.
NamingFilenameOf == [u \in NamingUrls |-> makeHtmlFilenameFromUrl(u)] @@ <<>>

\* dirName is pageName with its trailing ".html" replaced by "_files".
HtmlReplacedByFiles(pageName, dirName) ==
    /\ Len(pageName) >= 5
    /\ SubSeq(pageName, Len(pageName) - 4, Len(pageName)) = ".html"
    /\ dirName = SubSeq(pageName, 1, Len(pageName) - 5) \o "_files"

\* C14: the name of the resources directory is the page filename of the
\* same URL with its trailing ".html" replaced by "_files", and the paths
\* of the page file and of the resources directory are both directly
\* inside outputDir.
C14_ResourcesDirName ==
    /\ naming.dir # "" =>
        /\ HtmlReplacedByFiles(NamingFilenameOf[urlArg], naming.dir)
        /\ naming.html # "" => HtmlReplacedByFiles(naming.html, naming.dir)
    /\ naming.htmlPath # "" =>
        /\ naming.htmlPath = outputDir \o "/" \o naming.html
        /\ naming.dirPath = outputDir \o "/" \o naming.dir
        /\ naming.dirPath # naming.htmlPath

\* The names and paths were computed for a page URL whose path ends in
\* ".html".
C14_Witness ==
    /\ urlArg = "https://example.com/a/b.html"
    /\ naming.dir = "example-com-a-b-html_files"
    /\ naming.htmlPath = "/out/example-com-a-b-html.html"
    /\ naming.dirPath = "/out/example-com-a-b-html_files"

(***************************************************************************)
(* C15.  The resource filename.                                            *)
(***************************************************************************)
\* The host of the page, and the path a reference resolves to with its
\* extension, tabulated.
NamingHostOf == [u \in NamingUrls |-> Url1(u).host] @@ <<>>
NamingPathOf ==
    [u \in NamingUrls, r \in NamingRefs |-> Url2(r, u).pathname] @@ <<>>
NamingExtOf ==
    [u \in NamingUrls, r \in NamingRefs |->
        PathExtname(Url2(r, u).pathname)] @@ <<>>

\* The path p with the extension ext of its last component removed; the
\* slashes that follow the last component stay.
WithoutExtensionAt(p, ext, trimmed) ==
    SubSeq(trimmed, 1, Len(trimmed) - Len(ext))
        \o SubSeq(p, Len(trimmed) + 1, Len(p))

WithoutExtension(p, ext) == WithoutExtensionAt(p, ext, StripTrailing(p, "/"))

\* name is from sanitized, followed by ext.
SanitizedWithExt(name, from, ext) ==
    /\ Len(name) = Len(from) + Len(ext)
    /\ Sanitized(from, SubSeq(name, 1, Len(from)))
    /\ SubSeq(name, Len(from) + 1, Len(name)) = ext

\* The filename C15 gives for the host, the resolved path and its
\* extension.
FilenameAsStated(name, host, p, ext) ==
    IF ext = ""
    THEN SanitizedWithExt(name, host \o p, ".html")
    ELSE SanitizedWithExt(name, host \o WithoutExtension(p, ext), ext)

\* C15: the resource filename is sanitize(host + path without extension)
\* followed by the extension: ".html" when the resolved path has no
\* extension, otherwise the path's extension, kept as it is and removed
\* from the path before sanitizing.
C15_ResourceFilename ==
    naming.resource # "" =>
        FilenameAsStated(naming.resource, NamingHostOf[urlArg],
                         NamingPathOf[urlArg, naming.ref],
                         NamingExtOf[urlArg, naming.ref])

\* The same for the references whose resolved path ends with its
\* extension: on these the statement holds.
C15_WhenPathEndsWithExtension ==
    EndsWith(NamingPathOf[urlArg, naming.ref], NamingExtOf[urlArg, naming.ref])
        => C15_ResourceFilename

(***************************************************************************)
(* C16.  Query string and fragment of a reference.                         *)
(***************************************************************************)
\* The resource filename of the references, of the references without
\* query and fragment, and the host the references resolve to, tabulated.
NamingResourceOf ==
    [u \in NamingUrls, r \in NamingRefs |-> makeResourceFilename(u, r)] @@ <<>>
BareResourceOf ==
    [u \in NamingUrls, r \in NamingRefs |->
        makeResourceFilename(u, WithoutQueryAndFragment(r))] @@ <<>>
NamingRefHostOf ==
    [u \in NamingUrls, r \in NamingRefs |-> Url2(r, u).host] @@ <<>>

\* C16: the filename computed for a reference is the filename of the
\* reference without its query and fragment, and every reference that
\* resolves to the same host and path has the same filename.
C16_QueryAndFragment ==
    naming.resource # "" =>
        /\ naming.resource = BareResourceOf[urlArg, naming.ref]
        /\ \A r \in NamingRefs :
            /\ NamingRefHostOf[urlArg, r] = NamingRefHostOf[urlArg, naming.ref]
            /\ NamingPathOf[urlArg, r] = NamingPathOf[urlArg, naming.ref]
            => NamingResourceOf[urlArg, r] = naming.resource

\* The filename was computed for a reference with a query and a fragment.
C16_Witness ==
    /\ naming.ref = "/img/x.png?v=2#top"
    /\ naming.resource = "example-com-img-x.png"
    /\ urlArg = "https://example.com/a/b"

(***************************************************************************)
(* C17.  The progress option.                                              *)
(***************************************************************************)
\* The errors of the runs that failed.
FailedErrors == { jobs[k].error : k \in { m \in DOMAIN jobs : jobs[m].st = "failed" } }

\* C17: where load stands is given by the jobs alone, whatever the
\* progress option: every job has been started once; the batch stands the
\* same with progress on and off; when a run has failed load is rejected
\* with the error of a failed run and the page file is not written; when
\* all runs are done the serialized document is what is written and load
\* resolves to the page path; otherwise load is waiting.
C17_ProgressOnlyVisibility ==
    jobs # <<>> =>
        /\ \A k \in DOMAIN jobs : jobs[k].runs = 1 /\ jobs[k].st # "new"
        /\ downloadResources(jobs, TRUE) = downloadResources(jobs, FALSE)
        /\ AnyFailed(jobs) =>
            /\ pc = "done"
            /\ outcome.kind = "rejected"
            /\ outcome.error \in FailedErrors
            /\ ~PageFileWritten
        /\ AllDone(jobs) =>
            /\ pc \in {"writePage", "done"}
            /\ pageWrite = cheerioHtml(dom)
            /\ outcome.kind = "resolved" =>
                /\ outcome.value = ExpectedAbsolutePath
                /\ files[ExpectedPagePath] = pageWrite
        /\ ~AnyFailed(jobs) /\ ~AllDone(jobs) =>
            pc = "join" /\ outcome = Pending /\ pageWrite = NoContent

\* With progress on, a run failed while another was still going.
C17_Witness ==
    /\ progress = TRUE
    /\ \E k \in DOMAIN jobs : jobs[k].st = "failed"
    /\ \E k \in DOMAIN jobs : jobs[k].st \in {"fetching", "writing"}
    /\ outcome.kind = "rejected"

(***************************************************************************)
(* C18.  The command-line program.                                         *)
(***************************************************************************)
\* What the program owes once the result of load was reported: on success
\* exit code 0 and the saved absolute path on standard output, otherwise
\* exit code 1 and one line on standard error.
CliReportsAsStated ==
    IF Succeeded
    THEN /\ cli.exitCode = 0
         /\ cli.stdout = <<ExpectedAbsolutePath>>
         /\ cli.stderr = <<>>
    ELSE /\ cli.exitCode = 1
         /\ Len(cli.stderr) = 1
         /\ cli.stderr[1] # ""

\* C18: the command-line program ends with exit code 1 and exactly one
\* single-line message on standard error for every failure of load, a
\* malformed URL argument included, and with exit code 0 and the saved
\* absolute path on standard output on success.
C18_CliContract == cli.reported => CliReportsAsStated

\* The same for the calls of load that return a promise, however it
\* settles.
C18_WhenLoadReturnsPromise ==
    cli.reported /\ outcome.kind # "thrown" => CliReportsAsStated

(***************************************************************************)
(* C19.  The page file is written last.                                    *)
(***************************************************************************)
\* The invocation started in an output directory that exists and was
\* empty: every other directory and every file there is was made by a call
\* of this invocation.
StartedEmpty ==
    /\ PathNormalize(outputDir) \in dirs
    /\ \A d \in dirs \ {PathNormalize(outputDir)} :
        [op |-> "mkdir", path |-> d, code |-> ""] \in fsLog
    /\ \A p \in DOMAIN files :
        [op |-> "writeFile", path |-> p, code |-> ""] \in fsLog

\* Job k has completed successfully: its payload was fetched and its
\* resource file written.
JobCompleted(k) ==
    /\ jobs[k].st = "done"
    /\ \E f \in fetches : f.url = jobs[k].url /\ f.error = NoError
    /\ [op |-> "writeFile", path |-> jobs[k].path, code |-> ""] \in fsLog
    /\ jobs[k].path \in DOMAIN files

\* Once the page file is written every local reference has its job and
\* every job has completed successfully.
AllJobsCompletedFirst ==
    StartedEmpty /\ PageFileWritten =>
        /\ Len(jobs) = Cardinality(LocalNodes)
        /\ \A k \in DOMAIN jobs : JobCompleted(k)

\* After the page file nothing is requested, created or written.
NothingAfterPageFile ==
    StartedEmpty /\ PageFileWritten =>
        UNCHANGED <<dirs, files, fsLog, fetches, jobs, dom>>

\* C19: in an invocation started in an empty output directory, if the page
\* file has been written then every resource job has completed
\* successfully, and the page file is the last thing written.
C19_PageFileLast == [](AllJobsCompletedFirst) /\ [][NothingAfterPageFile]_vars

\* The page file was written in a directory that started empty, after two
\* resource jobs.
C19_Witness ==
    /\ StartedEmpty
    /\ PageFileWritten
    /\ Len(jobs) = 2
    /\ files[ExpectedPagePath] = cheerioHtml(dom)

(***************************************************************************)
(* C20.  Rewrites, downloads and the document.                             *)
(***************************************************************************)
\* Every rewrite of the invocation is in the document.
AllRewritesApplied ==
    /\ Len(dom) = Len(page)
    /\ \A i \in DOMAIN page : RefOf(dom[i]) = ExpectedAttr(i)

\* A download of job k has resolved: its fetch or its write has settled.
DownloadResolved(k) == jobs[k].st \in {"writing", "done", "failed"}

\* From the moment the jobs exist, so before any download resolves, all
\* rewrites are applied; the document is not serialized before every
\* download has resolved.
RewrittenBeforeDownloads ==
    jobs # <<>> =>
        /\ AllRewritesApplied
        /\ ~AllDone(jobs) => pageWrite = NoContent
        /\ pageWrite # NoContent => pageWrite = cheerioHtml(dom)

\* No step taken once the jobs exist, a download callback least of all,
\* changes the document.
DocumentUntouched == jobs # <<>> => dom' = dom

\* C20: all attribute rewrites are applied to the in-memory document
\* before any resource download resolves, the document is neither mutated
\* nor serialized between the last rewrite and the moment all downloads
\* have resolved, and no download callback touches the document.
C20_RewritesBeforeDownloads ==
    [](RewrittenBeforeDownloads) /\ [][DocumentUntouched]_vars

\* Two downloads are under way, neither has resolved, and both rewrites
\* are in the document, which is not serialized yet.
C20_Witness ==
    /\ Len(jobs) = 2
    /\ \A k \in DOMAIN jobs : ~DownloadResolved(k)
    /\ AllRewritesApplied
    /\ \A k \in DOMAIN jobs : RefOf(dom[jobs[k].node]) # RefOf(page[jobs[k].node])
    /\ pageWrite = NoContent

(***************************************************************************)
(* C21.  Fail-fast join, no cancellation, no rollback.                     *)
(***************************************************************************)
\* The run of job k still goes on: its fetch can settle, or its write can
\* and can put the resource file on disk.
StillRunning(k) ==
    /\ jobs[k].st = "fetching" => ENABLED ResourceFetchSettles(k)
    /\ jobs[k].st = "writing" =>
        ENABLED (ResourceWriteSettles(k) /\ jobs'[k].st = "done")

\* C21: load is rejected as soon as one job has failed; the downloads
\* started before go on and can still write their resource files after
\* the rejection; the resources directory and the resource files written
\* stay on disk.
C21_FailFastNoCancel ==
    jobs # <<>> =>
        /\ AnyFailed(jobs) => outcome.kind = "rejected" /\ pc = "done"
        /\ outcome.kind = "rejected" =>
            /\ \A k \in DOMAIN jobs : StillRunning(k)
            /\ ExpectedDirPath \in dirs
            /\ \A k \in DOMAIN jobs :
                jobs[k].st = "done" =>
                    /\ jobs[k].path \in DOMAIN files
                    /\ files[jobs[k].path].form = "resource"

\* Load is rejected for a failed download while another download, past
\* its fetch, can still write its file; the resources directory is there.
C21_Witness ==
    /\ outcome.kind = "rejected"
    /\ \E k \in DOMAIN jobs : jobs[k].st = "failed"
    /\ \E k \in DOMAIN jobs :
        /\ jobs[k].st = "writing"
        /\ ENABLED (ResourceWriteSettles(k) /\ jobs'[k].st = "done")
    /\ ExpectedDirPath \in dirs

(***************************************************************************)
(* C22.  Every job is run exactly once.                                    *)
(***************************************************************************)
\* The creation of the resources directory failed.
MkdirFailed ==
    \E l \in fsLog : l.op = "mkdir" /\ l.code # ""

\* In the batch there is one job per resource and each has been run once;
\* after a failed mkdir there is no job and nothing but the page was
\* requested.
RunExactlyOnce ==
    /\ jobs # <<>> =>
        /\ Len(jobs) = Len(resources)
        /\ \A k \in DOMAIN jobs : jobs[k].runs = 1 /\ jobs[k].st # "new"
    /\ MkdirFailed =>
        /\ jobs = <<>>
        /\ \A f \in fetches : f.url = urlArg /\ f.error = NoError
        /\ outcome.kind = "rejected"

\* No step runs a job again, and a run that has failed or is done stays
\* as it is.
NeverRunAgain ==
    \A k \in DOMAIN jobs :
        /\ jobs'[k].runs = jobs[k].runs
        /\ jobs[k].st \in {"failed", "done"} => jobs'[k] = jobs[k]

\* C22: in every execution that reaches the download batch the run action
\* of each job is invoked exactly once, with progress on or off, never
\* again after a failure, and no job is run when the creation of the
\* directory failed.
C22_RunOnce == [](RunExactlyOnce) /\ [][NeverRunAgain]_vars

\* With progress on, one run has failed, the other went on to the end, and
\* each was invoked once.
C22_Witness ==
    /\ progress = TRUE
    /\ Len(jobs) = 2
    /\ \E k \in DOMAIN jobs : jobs[k].st = "failed" /\ jobs[k].runs = 1
    /\ \E k \in DOMAIN jobs : jobs[k].st = "done" /\ jobs[k].runs = 1

(***************************************************************************)
(* C23.  Loading the same page again.                                      *)
(***************************************************************************)
\* The resources directory was there when load was called: it exists and
\* no mkdir of this invocation made it.
DirWasThere ==
    /\ ExpectedDirPath \in dirs
    /\ [op |-> "mkdir", path |-> ExpectedDirPath, code |-> ""] \notin fsLog

\* The mkdir of the resources directory was refused because the directory
\* exists, and load failed with that.
FailedOnExistingDir ==
    /\ [op |-> "mkdir", path |-> ExpectedDirPath, code |-> "EEXIST"] \in fsLog
    /\ outcome.kind = "rejected"
    /\ outcome.error.name = "FileSystemError"
    /\ outcome.error.filepath = ExpectedDirPath

\* C23: ensuring that the resources directory exists is idempotent: a load
\* of a page with local resources into an output directory that holds the
\* resources directory of an earlier load does not fail on that directory;
\* the creation fails only when the directory cannot be created.
C23_DirectoryIdempotent == DirWasThere => ~FailedOnExistingDir

\* When the resources directory is not there the creation fails only for
\* a missing parent or a refusal of the file system.
C23_WhenDirectoryAbsent ==
    \A l \in fsLog :
        l.op = "mkdir" /\ l.code # "" /\ ~DirWasThere =>
            l.code \in {"ENOENT", "EACCES"}

(***************************************************************************)
(* C24.  The error load rejects with.                                      *)
(***************************************************************************)
\* A call of this invocation has failed.
SomeFailure ==
    \/ \E f \in fetches : f.error # NoError
    \/ \E l \in fsLog : l.code # ""
    \/ \E k \in DOMAIN classified : classified[k].threw

\* err is the failure this step records, as the wrapper raised it: the
\* error of the request that settled, with its URL and status, or the
\* error of the file-system call that settled, with its path and code, or
\* the error the classifier threw.
FailureOfStep(err) ==
    \/ \E f \in fetches' \ fetches :
        /\ err = f.error
        /\ err.resourceUrl = f.url
        /\ err.name \in {"HttpError", "NetworkError"}
        /\ err.name = "HttpError" => err.status = f.ax.status
    \/ \E l \in fsLog' \ fsLog :
        /\ err.name = "FileSystemError"
        /\ err.filepath = l.path
        /\ err.cause.code = l.code
        /\ l.code # ""
    \/ /\ classified' # classified
       /\ classified'[Len(classified')].threw
       /\ err.name = "TypeError"

\* While load has not rejected nothing has failed.
NoFailureUnreported ==
    outcome.kind \in {"pending", "resolved"} => ~SomeFailure

\* The step that rejects load rejects it with the failure of that very
\* step, and once rejected the error is never replaced.
RejectsWithFirstOnly ==
    /\ outcome.kind = "pending" /\ outcome'.kind = "rejected" =>
        FailureOfStep(outcome'.error)
    /\ outcome.kind = "rejected" => outcome' = outcome

\* C24: the error load rejects with is the first failure of the
\* invocation, unchanged (same kind, same status, same URL or path); when
\* several downloads fail the caller gets the error of the first and the
\* later failures are not reported.
C24_FirstFailureUnchanged ==
    [](NoFailureUnreported) /\ [][RejectsWithFirstOnly]_vars

\* Two downloads have failed with different errors and load carries one
\* of them.
C24_Witness ==
    \E k, m \in DOMAIN jobs :
        /\ jobs[k].st = "failed"
        /\ jobs[m].st = "failed"
        /\ jobs[k].error # jobs[m].error
        /\ outcome = RejectedWith(jobs[k].error)

(***************************************************************************)
(* C25.  Filesystem-safe filenames.                                        *)
(***************************************************************************)
\* The positions of name that hold a ".".
DotsOf(name) == { i \in 1..Len(name) : Ch(name, i) = "." }

\* name consists of ASCII letters, digits and "-", plus a single ".".
SafeFilename(name) ==
    /\ Cardinality(DotsOf(name)) = 1
    /\ \A i \in 1..Len(name) :
        Ch(name, i) = "." \/ Ch(name, i) = "-" \/ IsAsciiAlnum(Ch(name, i))

\* The page filename computed is safe.
PageFilenameSafe == naming.html # "" => SafeFilename(naming.html)

\* C25: every filename the naming functions produce consists only of
\* ASCII letters, digits and "-", plus a single "." introducing the
\* extension, the characters of a kept extension included.
C25_SafeFilenames ==
    /\ PageFilenameSafe
    /\ naming.resource # "" => SafeFilename(naming.resource)

\* The page filename is always safe, and so is the part of a resource
\* filename before its extension: only the extension is kept as it is.
C25_SafeButExtension ==
    /\ PageFilenameSafe
    /\ naming.resource # "" =>
        /\ DotsOf(naming.resource) # {}
        /\ \A i \in 1..Len(naming.resource) :
            (\E d \in DotsOf(naming.resource) : d <= i)
                \/ Ch(naming.resource, i) = "-"
                \/ IsAsciiAlnum(Ch(naming.resource, i))

(***************************************************************************)
(* C26.  What the rewritten attributes name.                               *)
(***************************************************************************)
\* The reference element i holds in the saved document.
SavedRef(i) == RefOf(files[ExpectedPagePath].elems[i])

\* The file the saved reference of element i names, seen from the page
\* file, holds the payload of the URL the original reference resolved to.
NamesOwnPayload(i) ==
    /\ (outputDir \o "/" \o SavedRef(i)) \in DOMAIN files
    /\ files[outputDir \o "/" \o SavedRef(i)] = Payload(AbsUrl(i))

\* Two local references of the page that resolve to different URLs have
\* the same filename.
FilenamesCollide ==
    \E i, j \in LocalNodes :
        /\ AbsUrl(i) # AbsUrl(j)
        /\ FilenameOf[urlArg, RefOf(page[i])] = FilenameOf[urlArg, RefOf(page[j])]

\* C26: after a successful load, for every rewritten attribute of the
\* saved document, the file at the path the attribute names holds the
\* payload fetched from the URL the original reference resolved to, in
\* every interleaving of the downloads, also when two distinct references
\* have the same local filename.
C26_AttributesNamePayloads ==
    Succeeded => \A i \in LocalNodes : NamesOwnPayload(i)

\* The same when no two distinct references have the same filename.
C26_WhenFilenamesDistinct ==
    Succeeded /\ ~FilenamesCollide => \A i \in LocalNodes : NamesOwnPayload(i)

(***************************************************************************)
(* C27.  Every write stays inside the output directory.                    *)
(***************************************************************************)
\* path is the page file, the resources directory or a file directly
\* inside the resources directory.
InsideLayout(path) ==
    \/ path = ExpectedPagePath
    \/ path = ExpectedDirPath
    \/ Dirname(path) = ExpectedDirPath

\* C27: the only paths an invocation creates or writes, or tries to, are
\* <outputDir>/<pageFilename>, <outputDir>/<resourcesDirName> and files
\* directly inside that directory, whatever the references of the page
\* (".." segments and path separators included).
C27_WritesInsideOutputDir ==
    PageWasFetched =>
        /\ \A l \in fsLog :
            /\ InsideLayout(l.path)
            /\ l.op = "mkdir" <=> l.path = ExpectedDirPath
        /\ \A p \in DOMAIN files : InsideLayout(p)
        /\ dirs \subseteq {PathNormalize(outputDir), ExpectedDirPath}

\* A page whose stylesheet reference climbs out with ".." segments was
\* loaded, and its payload sits directly inside the resources directory.
C27_Witness ==
    /\ Succeeded
    /\ \E i \in LocalNodes :
        /\ RefOf(page[i]) = "../../css/a.css?v=1"
        /\ ExpectedFilePath(i) \in DOMAIN files
        /\ Dirname(ExpectedFilePath(i)) = ExpectedDirPath
        /\ [op |-> "writeFile", path |-> ExpectedFilePath(i), code |-> ""] \in fsLog

(***************************************************************************)
(* C28.  A failed page fetch changes nothing.                              *)
(***************************************************************************)
\* The page fetch failed: the request for the page settled with an error
\* and the page was never obtained.
PageFetchFailed ==
    /\ ~PageWasFetched
    /\ \E f \in fetches : f.url = urlArg /\ f.error # NoError

\* After a failed page fetch load is rejected with the error of that
\* fetch, no file-system call was made, no job exists and nothing else
\* was requested.
NothingStarted ==
    PageFetchFailed =>
        /\ fsLog = {}
        /\ jobs = <<>>
        /\ pageWrite = NoContent
        /\ Cardinality(fetches) = 1
        /\ outcome.kind = "rejected"
        /\ outcome.error.name \in {"HttpError", "NetworkError"}
        /\ outcome.error.resourceUrl = urlArg

\* The step in which the page fetch fails, and every step after it, leaves
\* the directories and the files as they were.
FilesystemUnchanged ==
    PageFetchFailed' => dirs' = dirs /\ files' = files

\* C28: when the page fetch itself fails, with a transfer-status or a
\* connectivity failure, load leaves the file system unchanged: no page
\* file is written, no resources directory is created and no resource
\* download is started.
C28_FailedPageFetchFrame ==
    [](NothingStarted) /\ [][FilesystemUnchanged]_vars

\* The page fetch failed for want of a connection in an output directory
\* that held an earlier page file, which is still there.
C28_Witness ==
    /\ PageFetchFailed
    /\ outcome.error.name = "NetworkError"
    /\ ExpectedPagePath \in DOMAIN files
    /\ files[ExpectedPagePath] = StaleContent

=============================================================================
